---- MODULE Spec2Model ----
(***************************************************************************)
(* A model of the VRUI controller (src/unnamed/part_001), of the layout    *)
(* abstraction (src/src/layout/abstract-layout.js) and of the vertical     *)
(* layout (src/src/layout/vertical-layout.js).                             *)
(*                                                                         *)
(* Objects are modelled by value: an element is a record, a layout holds   *)
(* the sequence of its children, a page is the root of such a tree, and a  *)
(* reference to an object inside a page is the index of the page together  *)
(* with the path of child indices that leads to it.  The elements handed   *)
(* to the controller's add carry a tag (their serial number), which stands *)
(* for their identity.                                                     *)
(***************************************************************************)
EXTENDS Integers, Sequences, FiniteSets

(***************************************************************************)
(* Bounds of the model.                                                    *)
(***************************************************************************)
\* style.height is counted in units of 1/HeightUnit of the container's
\* height: the 1.0 of isFull() is HeightUnit units.
HeightUnit == 2
\* The number of elements handed to VRUI.add in one run.
MaxAdds == 3
\* The number of pages a controller may hold.
MaxPages == 2
\* The number of enableMouse calls in one run.
MaxEnable == 2
\* The width and the height of the render surface, in pixels.
CanvasSize == 2
\* The number of nodes handed to the add of a container in one run.
MaxGiven == 2
\* The number of bits of the significand of the doubles whose rounding is
\* followed, and the number of children of the container they are summed in.
SignificandBits == 3
MaxChildren == 3

(***************************************************************************)
(* Values.                                                                 *)
(***************************************************************************)
\* VRUI.AUTOMATIC_ADDING = 0x0, and a mode type the controller does not know.
AUTOMATIC_ADDING == 0
OTHER_MODE == 1

\* The number of bits of the significand of a JavaScript number.
Binary64 == 53

\* data.id of an element that declares none, and the absent layoutID.
NoId == "none"
NoLayoutID == ""
LayoutIDs == {"a"}

\* null / undefined, and an object that is no VRUI.Element.
NullVal == [kind |-> "null"]
ObjectVal == [kind |-> "object"]
ArrayVal(items) == [kind |-> "array", items |-> items]

\* A number, and what ! makes of a value: null, undefined and 0 are falsy.
Number(v) == [kind |-> "number", value |-> v]
Falsy(v) == v.kind = "null" \/ (v.kind = "number" /\ v.value = 0)

\* A leaf view (ElementView) and a VerticalLayout, as constructed: not
\* hovered, visible, the group at the origin, no _parentDimensions.
View(id, height) ==
    [kind |-> "view", id |-> id, height |-> height, hover |-> FALSE,
     visible |-> TRUE, tag |-> 0, elements |-> <<>>,
     x |-> 0, y |-> 0, _parentDimensions |-> NullVal]
VerticalLayout(id, height, elements) ==
    [kind |-> "layout", id |-> id, height |-> height, hover |-> FALSE,
     visible |-> TRUE, tag |-> 0, elements |-> elements,
     x |-> 0, y |-> 0, _parentDimensions |-> NullVal]

\* element instanceof Element, element instanceof AbstractLayout,
\* element.constructor === Array.
IsElement(v) == v.kind \in {"view", "layout"}
IsLayout(v) == v.kind = "layout"
IsArray(v) == v.kind = "array"

(***************************************************************************)
(* References into a tree.                                                 *)
(***************************************************************************)
\* The reference that is null, as a path.
NullRef == <<0>>

RECURSIVE NodeAt(_, _)
NodeAt(n, p) == IF p = <<>> THEN n ELSE NodeAt(n.elements[Head(p)], Tail(p))

RECURSIVE ReplaceAt(_, _, _)
ReplaceAt(n, p, m) ==
    IF p = <<>> THEN m
    ELSE [n EXCEPT !.elements[Head(p)] = ReplaceAt(@, Tail(p), m)]

\* The paths of all the nodes of a tree, the root's first.
RECURSIVE Paths(_)
Paths(n) ==
    {<<>>} \cup UNION {{<<i>> \o p : p \in Paths(n.elements[i])} :
                         i \in 1..Len(n.elements)}

(***************************************************************************)
(* Element (the part the controller uses).                                 *)
(***************************************************************************)
setVisible(n, v) == [n EXCEPT !.visible = v]

\* A deep copy: a fresh object of the same shape, ids and style, not hovered
\* and not placed.
RECURSIVE clone(_)
clone(n) ==
    [n EXCEPT !.hover = FALSE, !.visible = TRUE,
              !.x = 0, !.y = 0, !._parentDimensions = NullVal,
              !.elements = [i \in 1..Len(n.elements) |-> clone(n.elements[i])]]

(***************************************************************************)
(* VerticalLayout.isFull.  A height is a double; it is held as a whole     *)
(* number of quanta (the unit of the least bit any height has), and a sum  *)
(* is rounded as IEEE 754 rounds it: to the nearest number the significand *)
(* can hold, a tie to the one whose significand is even.                   *)
(***************************************************************************)
RECURSIVE BitLength(_)
BitLength(n) == IF n = 0 THEN 0 ELSE 1 + BitLength(n \div 2)

RECURSIVE Pow2(_)
Pow2(k) == IF k = 0 THEN 1 ELSE 2 * Pow2(k - 1)

\* The double nearest to the non-negative number s, for a significand of
\* bits bits.
RoundToNearestEven(s, bits) ==
    IF BitLength(s) <= bits THEN s
    ELSE LET ulp == Pow2(BitLength(s) - bits)
             q == s \div ulp
             rem == s % ulp
             up == 2 * rem > ulp \/ (2 * rem = ulp /\ q % 2 = 1)
         IN  (IF up THEN q + 1 ELSE q) * ulp

\* height += elt.style.height over this._elements, from height on.
RECURSIVE SumHeightsIn(_, _, _)
SumHeightsIn(height, elts, bits) ==
    IF elts = <<>> THEN height
    ELSE SumHeightsIn(RoundToNearestEven(height + Head(elts).height, bits),
                      Tail(elts), bits)

\* return height >= 1.0, where 1.0 is one quanta.
isFullIn(layout, one, bits) == SumHeightsIn(0, layout.elements, bits) >= one

\* The heights of the pages' elements are multiples of 1/HeightUnit, whose
\* sums a double holds exactly.
SumHeights(elts) == SumHeightsIn(0, elts, Binary64)

isFull(layout) == isFullIn(layout, HeightUnit, Binary64)

(***************************************************************************)
(* AbstractLayout.add / _addItem.  The result is the layout after the call *)
(* and whether the call threw.                                             *)
(***************************************************************************)
_addItem(r, element) ==
    IF ~IsElement(element) THEN [r EXCEPT !.threw = TRUE]
    ELSE [r EXCEPT !.layout.elements = Append(@, element)]

\* for ( let elt of ... ) this._addItem( elt ): a throw ends the loop.
RECURSIVE _addItems(_, _)
_addItems(r, elts) ==
    IF elts = <<>> \/ r.threw THEN r
    ELSE _addItems(_addItem(r, Head(elts)), Tail(elts))

\* args is the arguments object of the call; element is its first entry.
AbstractLayout_add(layout, args) ==
    LET r == [layout |-> layout, threw |-> FALSE]
        element == IF Len(args) > 0 THEN args[1] ELSE NullVal
    IN  IF element.kind = "null" THEN [r EXCEPT !.threw = TRUE]
        ELSE IF Len(args) > 0 THEN _addItems(r, args)
        ELSE IF IsArray(element) THEN _addItems(r, element.items)
        ELSE _addItem(r, element)

(***************************************************************************)
(* AbstractLayout.forceExit / _onHoverExitWrapper / _intersect.  A ray is  *)
(* the set of the paths of the nodes whose background (or mesh) it hits.   *)
(***************************************************************************)
RECURSIVE forceExit(_)

\* forceExit without the call of the children's own forceExit.
forceExit_NoRecursion(layout) ==
    [layout EXCEPT !.elements =
        [i \in 1..Len(layout.elements) |->
            [layout.elements[i] EXCEPT !.hover = FALSE]]]

forceExit(layout) ==
    [layout EXCEPT !.elements =
        [i \in 1..Len(layout.elements) |->
            LET elt == layout.elements[i]
                e1 == IF IsLayout(elt) THEN forceExit(elt) ELSE elt
            IN  [e1 EXCEPT !.hover = FALSE]]]

\* The user's _onHoverExit callback changes nothing the model holds.
_onHoverExitWrapper(layout) == forceExit(layout)

\* Element._checkHover: on a hit the element is hovered; on a miss it is not
\* and its exit callback is fired (exit).
_checkHover(n, hit) ==
    [node |-> [n EXCEPT !.hover = hit], hit |-> hit, exit |-> ~hit]

\* ElementView._intersect: the hover test of the view's own mesh; the view's
\* callbacks change nothing the model holds.  tested is the record of the
\* _intersect calls made, in call order: the path of the node each was made
\* on and what it returned.
ElementView_intersect(n, path, ray) ==
    [node |-> _checkHover(n, path \in ray).node, hit |-> path \in ray,
     tested |-> <<[path |-> path, ret |-> path \in ray]>>]

RECURSIVE _intersect(_, _, _)
RECURSIVE _intersectElements(_, _, _, _)
RECURSIVE _intersectElements_NoStop(_, _, _, _)

\* The loop over this._elements that goes on after a child has reported a hit.
_intersectElements_NoStop(n, path, ray, i) ==
    IF i > Len(n.elements) THEN [node |-> n, tested |-> <<>>]
    ELSE LET r == _intersect(n.elements[i], Append(path, i), ray)
             n1 == [n EXCEPT !.elements[i] = r.node]
             rest == _intersectElements_NoStop(n1, path, ray, i + 1)
         IN  [node |-> rest.node, tested |-> r.tested \o rest.tested]

\* The loop over this._elements, from child i on: it stops at the first
\* child that reports a hit.
_intersectElements(n, path, ray, i) ==
    IF i > Len(n.elements) THEN [node |-> n, tested |-> <<>>]
    ELSE LET r == _intersect(n.elements[i], Append(path, i), ray)
             n1 == [n EXCEPT !.elements[i] = r.node]
             rest == _intersectElements(n1, path, ray, i + 1)
         IN  IF r.hit THEN [node |-> n1, tested |-> r.tested]
             ELSE [node |-> rest.node, tested |-> r.tested \o rest.tested]

_intersect(n, path, ray) ==
    IF ~IsLayout(n) THEN ElementView_intersect(n, path, ray)
    ELSE LET ch == _checkHover(n, path \in ray)
             h == IF ch.exit THEN _onHoverExitWrapper(ch.node) ELSE ch.node
             below == _intersectElements(h, path, ray, 1)
         IN  IF ~ch.hit
             THEN [node |-> h, hit |-> FALSE,
                   tested |-> <<[path |-> path, ret |-> FALSE]>>]
             ELSE [node |-> below.node, hit |-> TRUE,
                   tested |-> <<[path |-> path, ret |-> TRUE]>> \o below.tested]

(***************************************************************************)
(* The state of one VRUI controller, of the window it registers its        *)
(* listeners on, and the outcome of the last call made on it.              *)
(***************************************************************************)
VARIABLES
    pages,          \* this.pages
    _pageId,        \* this._pageId
    currPage,       \* this.currPage: the index in pages of the page it refers to
    template,       \* this.data.mode.template
    modeType,       \* this.data.mode.type
    data,           \* this.data: width and height
    enabled,        \* this.enabled
    inputObject,    \* this.inputObject
    _mouse,         \* this._mouse
    _state,         \* this._state
    _forcePressed,  \* this._forcePressed
    _update,        \* this._update: "_updateVR" or "_updateMouse"
    listeners,      \* the listeners registered on window
    nextGen,        \* the number of listener triples created so far
    nextTag,        \* the number of elements handed to add so far
    plainLog,       \* the heights of the elements added by add(e), in order
    plainOnly,      \* only add(e) calls were made since construction
    lastSwitch,     \* the last enableMouse / disableMouse call that returned
    lastOp          \* the last call: its name, arguments and outcome

ctlVars == <<pages, _pageId, currPage>>
cfgVars == <<template, modeType, data>>
inputVars == <<enabled, inputObject, _mouse, _state, _forcePressed, _update,
               listeners, nextGen, lastSwitch>>
addVars == <<nextTag, plainLog, plainOnly>>
vars == <<ctlVars, cfgVars, inputVars, addVars, lastOp>>

\* this._pageId and this.currPage before the first page is added, and the
\* NaN that (undefined + 1) % 0 evaluates to.
Undefined == 0 - 1
NaN == 0 - 2
NoPage == 0

\* The remainder of JavaScript's %: it has the sign of the dividend.
JSRem(a, b) == IF a >= 0 THEN a % b ELSE 0 - ((0 - a) % b)

\* The part of the controller the page operations read and write, with
\* what the call did: threw, warned.
Ctl == [pages |-> pages, pageId |-> _pageId, currPage |-> currPage,
        data |-> data, threw |-> FALSE, warned |-> FALSE]

Throw(c) == [c EXCEPT !.threw = TRUE]
Warn(c) == [c EXCEPT !.warned = TRUE]

(***************************************************************************)
(* VRUI.addPage                                                            *)
(***************************************************************************)
\* a || b
Or(a, b) == IF Falsy(a) THEN b ELSE a

\* addPage without the instanceof test of the page.
addPage_NoValidation(c, page, dimensions) ==
    IF Len(c.pages) + 1 # 1
    THEN [c EXCEPT !.pages = Append(@, setVisible(page, FALSE))]
    ELSE [c EXCEPT !.pages = Append(@, setVisible(page, TRUE)),
                   !.pageId = 0, !.currPage = 1]

\* dimensions is null when the call passes none.  The lengths are even
\* numbers of units, so that their halves are whole.
addPage(c, page, dimensions) ==
    LET dim == IF Falsy(dimensions) THEN c.data ELSE dimensions
        width == Or(dim.width, c.data.width)
        height == Or(dim.height, c.data.height)
        placed == [page EXCEPT !._parentDimensions =
                                   [width |-> width, height |-> height],
                               !.x = 0 - (width.value \div 2),
                               !.y = height.value \div 2]
    IN  IF ~IsElement(page) THEN Throw(c)
        ELSE IF Len(c.pages) + 1 # 1
             THEN [c EXCEPT !.pages = Append(@, setVisible(placed, FALSE))]
             ELSE [c EXCEPT !.pages = Append(@, setVisible(placed, TRUE)),
                            !.pageId = 0, !.currPage = 1]

(***************************************************************************)
(* VRUI.nextPage / VRUI.prevPage                                           *)
(***************************************************************************)
\* this.currPage.setVisible( v ): a TypeError when currPage is undefined.
SetCurrVisible(c, v) ==
    IF c.threw THEN c
    ELSE IF c.currPage = NoPage THEN Throw(c)
    ELSE [c EXCEPT !.pages[c.currPage] = setVisible(@, v)]

\* this.currPage = this.pages[ this._pageId ]: undefined out of range.
SetCurrPage(c) ==
    IF c.threw THEN c
    ELSE [c EXCEPT !.currPage =
            IF c.pageId >= 0 /\ c.pageId < Len(c.pages) THEN c.pageId + 1
            ELSE NoPage]

\* nextPage without the hide of the outgoing page.
nextPage_NoHide(c) ==
    LET c1 == [c EXCEPT !.pageId =
                  IF Len(c.pages) = 0 \/ c.pageId < 0 THEN NaN
                  ELSE JSRem(c.pageId + 1, Len(c.pages))]
    IN  SetCurrVisible(SetCurrPage(c1), TRUE)

nextPage(c) ==
    LET c1 == [c EXCEPT !.pageId =
                  IF Len(c.pages) = 0 \/ c.pageId < 0 THEN NaN
                  ELSE JSRem(c.pageId + 1, Len(c.pages))]
    IN  SetCurrVisible(SetCurrPage(SetCurrVisible(c1, FALSE)), TRUE)

\* prevPage without the correction of the negative remainder.
prevPage_NoWrap(c) ==
    LET id1 == IF Len(c.pages) = 0 \/ c.pageId < 0 THEN NaN
               ELSE JSRem(c.pageId - 1, Len(c.pages))
        c1 == [c EXCEPT !.pageId = id1]
    IN  SetCurrVisible(SetCurrPage(SetCurrVisible(c1, FALSE)), TRUE)

prevPage(c) ==
    LET id1 == IF Len(c.pages) = 0 \/ c.pageId < 0 THEN NaN
               ELSE JSRem(c.pageId - 1, Len(c.pages))
        id2 == IF id1 # NaN /\ id1 < 0 THEN Len(c.pages) - 1 ELSE id1
        c1 == [c EXCEPT !.pageId = id2]
    IN  SetCurrVisible(SetCurrPage(SetCurrVisible(c1, FALSE)), TRUE)

(***************************************************************************)
(* VRUI._visit with the findLayout callback of _addWithExpansion: the path *)
(* of the first element, in breadth-first order below layout, whose        *)
(* data.id is layoutID; NullRef when there is none.                        *)
(***************************************************************************)
findLayout(elt, layoutID) == elt.id = layoutID

ChildPaths(n, p) ==
    IF IsLayout(n) THEN [i \in 1..Len(n.elements) |-> Append(p, i)] ELSE <<>>

\* The loop that visits the children of an element before its siblings.
RECURSIVE _visitLoop_DepthFirst(_, _, _)
_visitLoop_DepthFirst(layout, visited, layoutID) ==
    IF visited = <<>> THEN NullRef
    ELSE LET p == Head(visited)
             elt == NodeAt(layout, p)
         IN  IF findLayout(elt, layoutID) THEN p
             ELSE _visitLoop_DepthFirst(layout,
                                        ChildPaths(elt, p) \o Tail(visited),
                                        layoutID)

RECURSIVE _visitLoop(_, _, _)
_visitLoop(layout, visited, layoutID) ==
    IF visited = <<>> THEN NullRef
    ELSE LET p == Head(visited)
             elt == NodeAt(layout, p)
         IN  IF findLayout(elt, layoutID) THEN p
             ELSE _visitLoop(layout, Tail(visited) \o ChildPaths(elt, p),
                             layoutID)

_visit(layout, layoutID) ==
    IF ~IsLayout(layout) THEN NullRef
    ELSE _visitLoop(layout, ChildPaths(layout, <<>>), layoutID)

(***************************************************************************)
(* VRUI._addWithExpansion                                                  *)
(***************************************************************************)
\* lastPage.add( element ) on the object at path ref of page pg.
AddToTarget(c, pg, ref, element) ==
    LET target == NodeAt(c.pages[pg], ref)
        r == AbstractLayout_add(target, <<element>>)
    IN  IF ~IsLayout(target) THEN Throw(c)
        ELSE [c EXCEPT !.pages[pg] = ReplaceAt(@, ref, r.layout),
                       !.threw = r.threw]

\* The expansion with the isFull() test inverted: a new page is made while
\* lastPage has room.
ExpandAndAdd_ExpandsWithRoom(c, pg, ref, element, layoutID) ==
    IF ~isFull(NodeAt(c.pages[pg], ref))
    THEN AddToTarget(addPage(c, clone(template), NullVal), pg, ref, element)
    ELSE AddToTarget(c, pg, ref, element)

\* From the isFull() test on: lastPage is the object at path ref of page pg.
ExpandAndAdd(c, pg, ref, element, layoutID) ==
    IF isFull(NodeAt(c.pages[pg], ref))
    THEN LET c1 == addPage(c, clone(template), NullVal)
             page == Len(c1.pages)
         IN  IF layoutID # NoLayoutID
             THEN LET ref1 == _visit(c1.pages[page], layoutID)
                  IN  IF ref1 = NullRef THEN Warn(c1)
                      ELSE AddToTarget(c1, page, ref1, element)
             ELSE AddToTarget(c1, pg, ref, element)
    ELSE AddToTarget(c, pg, ref, element)

\* The expansion that takes the current page for lastPage.
_addWithExpansion_CurrentPage(c, element, layoutID) ==
    IF ~IsLayout(template) THEN Throw(c)
    ELSE LET c1 == IF Len(c.pages) = 0 THEN addPage(c, clone(template), NullVal)
                   ELSE c
             pg == c1.currPage
             ref == IF layoutID # NoLayoutID THEN _visit(c1.pages[pg], layoutID)
                    ELSE <<>>
         IN  IF ref = NullRef THEN Throw(c1)
             ELSE IF ~IsLayout(NodeAt(c1.pages[pg], ref)) THEN Throw(c1)
             ELSE ExpandAndAdd(c1, pg, ref, element, layoutID)

_addWithExpansion(c, element, layoutID) ==
    IF ~IsLayout(template) THEN Throw(c)
    ELSE LET c1 == IF Len(c.pages) = 0 THEN addPage(c, clone(template), NullVal)
                   ELSE c
             pg == Len(c1.pages)
             ref == IF layoutID # NoLayoutID THEN _visit(c1.pages[pg], layoutID)
                    ELSE <<>>
         IN  IF ref = NullRef THEN Throw(c1)
             ELSE IF ~IsLayout(NodeAt(c1.pages[pg], ref)) THEN Throw(c1)
             ELSE ExpandAndAdd(c1, pg, ref, element, layoutID)

(***************************************************************************)
(* VRUI.add / VRUI._add                                                    *)
(***************************************************************************)
\* _add whose switch runs the expansion for every mode type.
_add_ExpandsInEveryMode(c, element, layoutID) ==
    IF ~IsElement(element) THEN Throw(c)
    ELSE _addWithExpansion(c, element, layoutID)

_add(c, element, layoutID) ==
    IF ~IsElement(element) THEN Throw(c)
    ELSE IF modeType = AUTOMATIC_ADDING
         THEN _addWithExpansion(c, element, layoutID)
         ELSE Warn(c)

\* for ( let elt of element ) this._add( elt, layoutID ): a throw ends the loop.
RECURSIVE _addEach(_, _, _)
_addEach(c, elts, layoutID) ==
    IF elts = <<>> \/ c.threw THEN c
    ELSE _addEach(_add(c, Head(elts), layoutID), Tail(elts), layoutID)

\* element.constructor of null or undefined is a TypeError.
add(c, element, layoutID) ==
    IF element.kind = "null" THEN Throw(c)
    ELSE IF IsArray(element) THEN _addEach(c, element.items, layoutID)
    ELSE _add(c, element, layoutID)

(***************************************************************************)
(* The calls the application makes on the controller's pages.              *)
(***************************************************************************)
Heights == {1, HeightUnit}

\* What the application hands to add, and as a page to addPage or to the
\* constructor.
AddInputs ==
    {View(NoId, h) : h \in Heights}
    \cup {VerticalLayout("a", 1, <<>>), ObjectVal, NullVal,
          ArrayVal(<<View(NoId, 1), View(NoId, 1)>>),
          ArrayVal(<<View(NoId, 1), ObjectVal>>)}

PageInputs ==
    {VerticalLayout("p", 1, <<View("a", 1)>>), View(NoId, 1), ObjectVal}

Templates ==
    {NullVal, VerticalLayout("t", 1, <<>>),
     VerticalLayout("t", 1, <<VerticalLayout("a", 1, <<>>)>>)}

\* The elements of a call of add, and the value with each of them given
\* its serial number, from t on.
Supplied(v) == IF IsArray(v) THEN v.items ELSE <<v>>

TagOne(v, t) == IF IsElement(v) THEN [v EXCEPT !.tag = t] ELSE v

Tagged(v, t) ==
    IF IsArray(v)
    THEN ArrayVal([i \in 1..Len(v.items) |-> TagOne(v.items[i], t + i - 1)])
    ELSE TagOne(v, t)

Call(op, arg, layoutID, c) ==
    [op |-> op, arg |-> arg, layoutID |-> layoutID, threw |-> c.threw,
     warned |-> c.warned, ret |-> "none", routine |-> "none"]

SetCtl(c) ==
    /\ pages' = c.pages
    /\ _pageId' = c.pageId
    /\ currPage' = c.currPage

Add(element, layoutID) ==
    LET arg == Tagged(element, nextTag + 1)
        c == add(Ctl, arg, layoutID)
        plain == plainOnly /\ IsElement(element) /\ layoutID = NoLayoutID
    IN  /\ nextTag + Len(Supplied(element)) <= MaxAdds
        /\ Len(c.pages) <= MaxPages
        /\ SetCtl(c)
        /\ nextTag' = nextTag + Len(Supplied(element))
        /\ plainOnly' = plain
        /\ plainLog' = IF plain THEN Append(plainLog, element.height) ELSE <<>>
        /\ lastOp' = Call("add", arg, layoutID, c)
        /\ UNCHANGED <<cfgVars, inputVars>>

AddPage(page, dimensions) ==
    LET c == addPage(Ctl, page, dimensions)
    IN  /\ Len(c.pages) <= MaxPages
        /\ SetCtl(c)
        /\ plainOnly' = FALSE
        /\ plainLog' = <<>>
        /\ lastOp' = Call("addPage",
                          [kind |-> "page", page |-> page,
                           dimensions |-> dimensions],
                          NoLayoutID, c)
        /\ UNCHANGED <<cfgVars, inputVars, nextTag>>

\* The index the call starts from, kept with the call.
FromIndex == [kind |-> "index", from |-> _pageId]

NextPage ==
    LET c == nextPage(Ctl)
    IN  /\ SetCtl(c)
        /\ plainOnly' = FALSE
        /\ plainLog' = <<>>
        /\ lastOp' = Call("nextPage", FromIndex, NoLayoutID, c)
        /\ UNCHANGED <<cfgVars, inputVars, nextTag>>

PrevPage ==
    LET c == prevPage(Ctl)
    IN  /\ SetCtl(c)
        /\ plainOnly' = FALSE
        /\ plainLog' = <<>>
        /\ lastOp' = Call("prevPage", FromIndex, NoLayoutID, c)
        /\ UNCHANGED <<cfgVars, inputVars, nextTag>>

(***************************************************************************)
(* The constructor.                                                        *)
(***************************************************************************)
\* The render surface is CanvasSize pixels wide and high; coords holds the
\* normalized device coordinates in units of 1/CanvasSize, so that the
\* constructor's ( -1.0, -1.0 ) is InitCoords.
InitCoords == <<0 - CanvasSize, 0 - CanvasSize>>

\* The test of a dimension that lets zero pass.
Rejected_ZeroPasses(v) == v.kind = "null" \/ v.value < 0

\* !data.width || data.width <= 0
Rejected(v) == Falsy(v) \/ v.value <= 0

\* The data of a controller: its width and its height.
Data(width, height) ==
    [kind |-> "data", width |-> width, height |-> height]

\* The outcome of new VRUI( d, root ) with d.mode.template = tmpl and
\* d.mode.type = type.  A constructor that throws leaves no controller: the
\* fields keep the values that stand for undefined, and enabled is false.
constructor(d, tmpl, type, root) ==
    LET c0 == [pages |-> <<>>, pageId |-> Undefined, currPage |-> NoPage,
               data |-> d, threw |-> FALSE, warned |-> FALSE]
        c == IF Rejected(d.width) \/ Rejected(d.height) THEN Throw(c0)
             ELSE IF root.kind = "null" THEN c0
             ELSE addPage(c0, root, NullVal)
    IN  /\ enabled = ~c.threw
        /\ data = d
        /\ modeType = type
        /\ template = IF type = AUTOMATIC_ADDING /\ IsElement(tmpl)
                      THEN clone(tmpl) ELSE tmpl
        /\ inputObject = NullVal
        /\ pages = c.pages
        /\ _pageId = c.pageId
        /\ currPage = c.currPage
        /\ _mouse = [coords |-> InitCoords, enabled |-> FALSE,
                     camera |-> NullVal, renderer |-> NullVal, gen |-> 0]
        /\ _state = [pressed |-> FALSE]
        /\ _forcePressed = FALSE
        /\ _update = IF c.threw THEN "undefined" ELSE "_updateVR"
        /\ listeners = {}
        /\ nextGen = 0
        /\ lastSwitch = "none"
        /\ nextTag = 0
        /\ plainLog = <<>>
        /\ plainOnly = (root.kind = "null")
        /\ lastOp = Call("constructor",
                         [kind |-> "new", data |-> d, root |-> root],
                         NoLayoutID, c)

\* A width and a height the constructor accepts.
SomeData == Data(Number(2), Number(2))

Init ==
    \E tmpl \in Templates, type \in {AUTOMATIC_ADDING, OTHER_MODE},
       root \in {r \in PageInputs : IsElement(r)} \cup {NullVal} :
        constructor(SomeData, tmpl, type, root)

Next ==
    \/ \E element \in AddInputs, layoutID \in LayoutIDs \cup {NoLayoutID} :
            Add(element, layoutID)
    \/ \E page \in PageInputs : AddPage(page, NullVal)
    \/ NextPage
    \/ PrevPage

Spec == Init /\ [][Next]_vars

(***************************************************************************)
(* Properties of the pages: adding and navigation.                         *)
(***************************************************************************)
\* The elements attached by add that are direct children of a page's root,
\* and the elements attached by add anywhere in the pages.
AddedIn(page) ==
    Cardinality({i \in 1..Len(page.elements) : page.elements[i].tag > 0})

AttachedTags(ps) ==
    UNION {{NodeAt(ps[i], p).tag : p \in Paths(ps[i])} : i \in 1..Len(ps)}
        \ {0}

RECURSIVE SumSeq(_)
SumSeq(q) == IF q = <<>> THEN 0 ELSE Head(q) + SumSeq(Tail(q))

\* A clone of the template is full once the first j elements of log are in it.
FullAfter(log, j) ==
    SumHeights(template.elements) + SumSeq(SubSeq(log, 1, j)) >= HeightUnit

\* k is the number of elements after which the clone is full.
IsCapacity(log, k) ==
    /\ FullAfter(log, k)
    /\ \A j \in 0..(k - 1) : ~FullAfter(log, j)

\* C1: on a controller with zero pages and a template whose clone is full
\* after exactly k elements, k+1 calls of add(e) leave exactly 2 pages, page 0
\* holding k of the added elements and page 1 holding 1.
C1_Pagination ==
    (plainOnly /\ modeType = AUTOMATIC_ADDING /\ IsLayout(template))
    => \A k \in 1..MaxAdds :
        (Len(plainLog) = k + 1 /\ IsCapacity(plainLog, k))
        => /\ Len(pages) = 2
           /\ AddedIn(pages[1]) = k
           /\ AddedIn(pages[2]) = 1

\* C2: add never appends an element to a container that is full at the
\* moment of the insertion: the children that precede an element attached by
\* add, which are the children its container had then, do not fill it.
C2_NeverAddsToFull ==
    \A i \in 1..Len(pages) : \A p \in Paths(pages[i]) :
        LET n == NodeAt(pages[i], p)
        IN  \A j \in 1..Len(n.elements) :
                n.elements[j].tag > 0
                => SumHeights(SubSeq(n.elements, 1, j - 1)) < HeightUnit

RECURSIVE NextTimes(_, _)
NextTimes(c, n) == IF n = 0 THEN c ELSE NextTimes(nextPage(c), n - 1)

SearchedPage ==
    IF Len(pages) = 0 THEN clone(template) ELSE pages[Len(pages)]

\* C5: add(element, layoutID) with a layoutID that matches no node of the
\* searched page returns without throwing, warns, and changes no page.
C5_TargetNotFound ==
    [][(/\ lastOp'.op = "add"
        /\ IsElement(lastOp'.arg)
        /\ lastOp'.layoutID # NoLayoutID
        /\ modeType = AUTOMATIC_ADDING
        /\ IsLayout(template)
        /\ _visit(SearchedPage, lastOp'.layoutID) = NullRef)
       => (~lastOp'.threw /\ lastOp'.warned /\ pages' = pages)]_vars

\* C6: a call of add either attaches every element it was given, or leaves
\* the pages and every children sequence as they were.
C6_AllOrNothing ==
    [][lastOp'.op = "add"
       => \/ pages' = pages
          \/ Cardinality(AttachedTags(pages')) =
                Cardinality(AttachedTags(pages)) + Len(Supplied(lastOp'.arg))]_vars

(***************************************************************************)
(* Input: enableMouse / disableMouse, the listeners, addInput, setPressed  *)
(* and update.                                                             *)
(***************************************************************************)
Done == [threw |-> FALSE, warned |-> FALSE]
Thrown == [threw |-> TRUE, warned |-> FALSE]
Warned == [threw |-> FALSE, warned |-> TRUE]

EventTypes == {"mousemove", "mousedown", "mouseup"}

\* A THREE.Camera itself, an instance of a camera class that extends it, and
\* the renderer.
Cameras == {NullVal, [kind |-> "Camera"], [kind |-> "PerspectiveCamera"]}
Renderers == {NullVal, [kind |-> "renderer"]}

enableMouse(camera, renderer) ==
    IF camera.kind = "null" \/ camera.kind = "Camera"
    THEN /\ lastOp' = Call("enableMouse", camera, NoLayoutID, Thrown)
         /\ UNCHANGED <<ctlVars, cfgVars, inputVars, addVars>>
    ELSE /\ nextGen < MaxEnable
         /\ _mouse' = [_mouse EXCEPT !.camera = camera, !.renderer = renderer,
                                     !.enabled = TRUE, !.gen = nextGen + 1]
         /\ listeners' = listeners \cup {<<t, nextGen + 1>> : t \in EventTypes}
         /\ nextGen' = nextGen + 1
         /\ _update' = "_updateMouse"
         /\ lastSwitch' = "enableMouse"
         /\ lastOp' = Call("enableMouse", camera, NoLayoutID, Done)
         /\ UNCHANGED <<ctlVars, cfgVars, addVars, enabled, inputObject,
                        _state, _forcePressed>>

\* disableMouse that leaves this._update as it is.
disableMouse_KeepsUpdate ==
    /\ _mouse' = [_mouse EXCEPT !.enabled = FALSE]
    /\ listeners' = listeners \ {<<t, _mouse.gen>> : t \in EventTypes}
    /\ lastSwitch' = "disableMouse"
    /\ lastOp' = Call("disableMouse", NullVal, NoLayoutID, Done)
    /\ UNCHANGED <<ctlVars, cfgVars, addVars, enabled, inputObject, _state,
                   _forcePressed, nextGen, _update>>

\* removeEventListener takes out the listener this._mouse holds now.
disableMouse ==
    /\ _mouse' = [_mouse EXCEPT !.enabled = FALSE]
    /\ listeners' = listeners \ {<<t, _mouse.gen>> : t \in EventTypes}
    /\ _update' = "_updateVR"
    /\ lastSwitch' = "disableMouse"
    /\ lastOp' = Call("disableMouse", NullVal, NoLayoutID, Done)
    /\ UNCHANGED <<ctlVars, cfgVars, addVars, enabled, inputObject, _state,
                   _forcePressed, nextGen>>

\* Whether window holds a listener of the type.
Listening(type) == \E l \in listeners : l[1] = type

\* The pointer events window delivers to the listeners registered on it.
Event(type, x, y, button) ==
    [kind |-> "event", type |-> type, offsetX |-> x, offsetY |-> y,
     button |-> button]

\* this._mouse.move: a TypeError when there is no renderer.
mousemove(offsetX, offsetY) ==
    LET ev == Event("mousemove", offsetX, offsetY, 0)
        ok == Listening("mousemove") /\ _mouse.renderer.kind # "null"
    IN  /\ _mouse' = IF ok
                     THEN [_mouse EXCEPT !.coords =
                             <<2 * offsetX - CanvasSize, CanvasSize - 2 * offsetY>>]
                     ELSE _mouse
        /\ lastOp' = Call("mousemove", ev, NoLayoutID,
                          IF Listening("mousemove") /\ ~ok THEN Thrown ELSE Done)
        /\ UNCHANGED <<ctlVars, cfgVars, addVars, enabled, inputObject, _state,
                       _forcePressed, _update, listeners, nextGen, lastSwitch>>

\* The down listener that takes every button for the left one.
mousedown_AnyButton(button) ==
    /\ _state' = IF Listening("mousedown")
                 THEN [_state EXCEPT !.pressed = TRUE] ELSE _state
    /\ lastOp' = Call("mousedown", Event("mousedown", 0, 0, button),
                      NoLayoutID, Done)
    /\ UNCHANGED <<ctlVars, cfgVars, addVars, enabled, inputObject, _mouse,
                   _forcePressed, _update, listeners, nextGen, lastSwitch>>

mousedown(button) ==
    /\ _state' = IF Listening("mousedown") /\ button = 0
                 THEN [_state EXCEPT !.pressed = TRUE] ELSE _state
    /\ lastOp' = Call("mousedown", Event("mousedown", 0, 0, button),
                      NoLayoutID, Done)
    /\ UNCHANGED <<ctlVars, cfgVars, addVars, enabled, inputObject, _mouse,
                   _forcePressed, _update, listeners, nextGen, lastSwitch>>

mouseup ==
    /\ _state' = IF Listening("mouseup")
                 THEN [_state EXCEPT !.pressed = FALSE] ELSE _state
    /\ lastOp' = Call("mouseup", Event("mouseup", 0, 0, 0), NoLayoutID, Done)
    /\ UNCHANGED <<ctlVars, cfgVars, addVars, enabled, inputObject, _mouse,
                   _forcePressed, _update, listeners, nextGen, lastSwitch>>

\* A tracked object: a THREE.Object3D, with or without userData.vrui.
Object3D(hasVrui, pressed) ==
    [kind |-> "Object3D", vrui |-> hasVrui, pressed |-> pressed]

addInput(object) ==
    /\ inputObject' = IF object.kind = "Object3D" THEN object ELSE inputObject
    /\ lastOp' = Call("addInput", object, NoLayoutID,
                      IF object.kind = "Object3D" THEN Done ELSE Thrown)
    /\ UNCHANGED <<ctlVars, cfgVars, addVars, enabled, _mouse, _state,
                   _forcePressed, _update, listeners, nextGen, lastSwitch>>

\* The application writes inputObj.userData.vrui.pressed.
SetDevicePressed(b) ==
    /\ inputObject.kind = "Object3D"
    /\ inputObject.vrui
    /\ inputObject' = [inputObject EXCEPT !.pressed = b]
    /\ lastOp' = Call("userData.vrui.pressed", [kind |-> "bool", value |-> b],
                      NoLayoutID, Done)
    /\ UNCHANGED <<ctlVars, cfgVars, addVars, enabled, _mouse, _state,
                   _forcePressed, _update, listeners, nextGen, lastSwitch>>

\* The application writes the enabled field.
SetEnabled(b) ==
    /\ enabled' = b
    /\ lastOp' = Call("enabled", [kind |-> "bool", value |-> b], NoLayoutID,
                      Done)
    /\ UNCHANGED <<ctlVars, cfgVars, addVars, inputObject, _mouse, _state,
                   _forcePressed, _update, listeners, nextGen, lastSwitch>>

setPressed(trigger) ==
    /\ _forcePressed' = IF _mouse.enabled THEN _forcePressed ELSE trigger
    /\ lastOp' = Call("setPressed", [kind |-> "bool", value |-> trigger],
                      NoLayoutID, IF _mouse.enabled THEN Warned ELSE Done)
    /\ UNCHANGED <<ctlVars, cfgVars, addVars, enabled, inputObject, _mouse,
                   _state, _update, listeners, nextGen, lastSwitch>>

\* What one update() did about hit-testing: the page whose _intersect it
\* called (NoPage when it called none) and the calls that page made.
Frame(page, tested) == [kind |-> "frame", page |-> page, tested |-> tested]

\* The hit test that is run on every page, not on the current page alone.
IntersectCurrPage_EveryPage(ray) ==
    IF currPage = NoPage
    THEN [pages |-> pages, threw |-> TRUE, ret |-> "none",
          frame |-> Frame(NoPage, <<>>)]
    ELSE LET r == _intersect(pages[currPage], <<>>, ray)
         IN  [pages |-> [i \in 1..Len(pages) |->
                            _intersect(pages[i], <<>>, ray).node],
              threw |-> FALSE, ret |-> IF r.hit THEN "true" ELSE "false",
              frame |-> Frame(currPage, r.tested)]

\* this.currPage._intersect( this._raycaster, this._state ): a TypeError
\* when there is no current page.  The result: the pages, whether the call
\* threw, what it returned, and the calls made.
IntersectCurrPage(ray) ==
    IF currPage = NoPage
    THEN [pages |-> pages, threw |-> TRUE, ret |-> "none",
          frame |-> Frame(NoPage, <<>>)]
    ELSE LET r == _intersect(pages[currPage], <<>>, ray)
         IN  [pages |-> [pages EXCEPT ![currPage] = r.node], threw |-> FALSE,
              ret |-> IF r.hit THEN "true" ELSE "false",
              frame |-> Frame(currPage, r.tested)]

\* The frame of the pointer routine: the coordinates the ray is set from and
\* the pressed state handed to the hit test.
PointerFrame(frame, coords, pressed) ==
    [kind |-> "frame", page |-> frame.page, tested |-> frame.tested,
     coords |-> coords, pressed |-> pressed]

_updateMouse(ray) ==
    LET r == IntersectCurrPage(ray)
    IN  /\ pages' = r.pages
        /\ lastOp' = [Call("update",
                           PointerFrame(r.frame, _mouse.coords, _state.pressed),
                           NoLayoutID,
                           IF r.threw THEN Thrown ELSE Done)
                        EXCEPT !.ret = r.ret, !.routine = "_updateMouse"]
        /\ UNCHANGED _state

_updateVR(ray) ==
    IF inputObject.kind = "null"
    THEN /\ lastOp' = [Call("update", Frame(NoPage, <<>>), NoLayoutID, Done)
                         EXCEPT !.ret = "null", !.routine = "_updateVR"]
         /\ UNCHANGED <<pages, _state>>
    ELSE IF ~inputObject.vrui
    THEN /\ lastOp' = [Call("update", Frame(NoPage, <<>>), NoLayoutID, Thrown)
                         EXCEPT !.routine = "_updateVR"]
         /\ UNCHANGED <<pages, _state>>
    ELSE LET r == IntersectCurrPage(ray)
         IN  /\ _state' = [_state EXCEPT !.pressed =
                              inputObject.pressed \/ _forcePressed]
             /\ pages' = r.pages
             /\ lastOp' = [Call("update", r.frame, NoLayoutID,
                                IF r.threw THEN Thrown ELSE Done)
                             EXCEPT !.ret = r.ret, !.routine = "_updateVR"]

\* The rays that may be cast at the current page.
Rays == IF currPage = NoPage THEN {{}} ELSE SUBSET Paths(pages[currPage])

update(ray) ==
    /\ IF ~enabled
       THEN /\ lastOp' = [Call("update", Frame(NoPage, <<>>), NoLayoutID,
                                Done)
                            EXCEPT !.ret = "null"]
            /\ UNCHANGED <<pages, _state>>
       ELSE IF _update = "_updateMouse" THEN _updateMouse(ray)
       ELSE _updateVR(ray)
    /\ UNCHANGED <<_pageId, currPage, cfgVars, addVars, enabled, inputObject,
                   _mouse, _forcePressed, _update, listeners, nextGen,
                   lastSwitch>>

InitInput ==
    \E root \in {NullVal, VerticalLayout("p", 1, <<View(NoId, 1)>>)} :
        constructor(SomeData, NullVal, AUTOMATIC_ADDING, root)

NextInput ==
    \/ \E camera \in Cameras, renderer \in Renderers :
            enableMouse(camera, renderer)
    \/ disableMouse
    \/ \E x \in {0, CanvasSize}, y \in {0, CanvasSize} : mousemove(x, y)
    \/ \E button \in {0, 2} : mousedown(button)
    \/ mouseup
    \/ \E object \in {ObjectVal, Object3D(FALSE, FALSE), Object3D(TRUE, FALSE)} :
            addInput(object)
    \/ \E b \in BOOLEAN : SetDevicePressed(b)
    \/ \E b \in BOOLEAN : SetEnabled(b)
    \/ \E trigger \in BOOLEAN : setPressed(trigger)
    \/ \E ray \in Rays : update(ray)

SpecInput == InitInput /\ [][NextInput]_vars

(***************************************************************************)
(* Properties of the input mode.                                           *)
(***************************************************************************)
\* C7: after a sequence of enableMouse and disableMouse calls that ends with
\* disableMouse, no pointer listener registered by the controller is still
\* registered on window.
C7_NoListenerAfterDisable ==
    lastOp.op = "disableMouse" => listeners = {}

\* C8: the controller starts in tracked-device mode; the routine update()
\* runs is the pointer routine exactly when the mouse-enabled flag is true,
\* which holds exactly when the last mode switch that returned was
\* enableMouse (a throwing enableMouse changes neither); after disableMouse
\* it is the tracked-device routine.
C8_InputModeExclusivity ==
    /\ _update \in {"_updateVR", "_updateMouse"}
    /\ (_update = "_updateMouse") <=> _mouse.enabled
    /\ _mouse.enabled <=> (lastSwitch = "enableMouse")
    /\ (lastOp.op = "constructor") => (_update = "_updateVR")
    /\ (lastOp.op = "disableMouse") => (_update = "_updateVR")
    /\ (lastOp.op = "update" /\ lastOp.routine # "none")
       => (lastOp.routine = "_updateMouse") <=> _mouse.enabled

\* C8's case: after enableMouse and then disableMouse, update() has run the
\* tracked-device routine on an attached device.
C8_Witness ==
    /\ lastSwitch = "disableMouse"
    /\ nextGen > 0
    /\ lastOp.op = "update"
    /\ lastOp.routine = "_updateVR"
    /\ lastOp.ret # "null"
    /\ ~lastOp.threw

(***************************************************************************)
(* The calls the application makes on the containers of a page: the page   *)
(* is the root handed to the constructor, and a call is made on the node   *)
(* at a path of it.                                                        *)
(***************************************************************************)
RootTree ==
    VerticalLayout("p", 1, <<VerticalLayout("a", 1, <<View(NoId, 1)>>)>>)

\* The forms of the arguments of a call of a container's add, the elements
\* numbered from t on.
ArgForms(t) ==
    LET v == TagOne(View(NoId, 1), t)
        w == TagOne(View(NoId, 1), t + 1)
    IN  {<<v>>, <<v, w>>, <<ArrayVal(<<v, w>>)>>, <<v, ObjectVal>>,
         <<NullVal>>, <<ObjectVal>>}

\* The nodes a call hands over: those of the one array, or the arguments.
Given(args) ==
    IF Len(args) = 1 /\ IsArray(args[1]) THEN args[1].items ELSE args

LayoutPaths(n) == {p \in Paths(n) : IsLayout(NodeAt(n, p))}

\* The paths, below the node, of its hovered descendants.
HoveredBelow(n) == {p \in Paths(n) \ {<<>>} : NodeAt(n, p).hover}

ContainerAdd(path, args) ==
    LET r == AbstractLayout_add(NodeAt(pages[1], path), args)
    IN  /\ nextTag + Len(Given(args)) <= MaxGiven
        /\ pages' = [pages EXCEPT ![1] = ReplaceAt(@, path, r.layout)]
        /\ nextTag' = nextTag + Len(Given(args))
        /\ lastOp' = Call("layout.add",
                          [kind |-> "arguments", path |-> path, items |-> args],
                          NoLayoutID, [threw |-> r.threw, warned |-> FALSE])
        /\ UNCHANGED <<_pageId, currPage, cfgVars, inputVars, plainLog,
                       plainOnly>>

Intersect(path, ray) ==
    LET n == NodeAt(pages[1], path)
        r == _intersect(n, path, ray)
    IN  /\ pages' = [pages EXCEPT ![1] = ReplaceAt(@, path, r.node)]
        /\ lastOp' = [Call("_intersect",
                           [kind |-> "ray", path |-> path, hit |-> path \in ray,
                            before |-> HoveredBelow(n), tested |-> r.tested],
                           NoLayoutID, Done)
                        EXCEPT !.ret = IF r.hit THEN "true" ELSE "false"]
        /\ UNCHANGED <<_pageId, currPage, cfgVars, inputVars, addVars>>

ForceExit(path) ==
    LET n == NodeAt(pages[1], path)
    IN  /\ pages' = [pages EXCEPT ![1] = ReplaceAt(@, path, forceExit(n))]
        /\ lastOp' = Call("forceExit",
                          [kind |-> "path", path |-> path,
                           before |-> HoveredBelow(n)],
                          NoLayoutID, Done)
        /\ UNCHANGED <<_pageId, currPage, cfgVars, inputVars, addVars>>

InitContainer == constructor(SomeData, NullVal, AUTOMATIC_ADDING, RootTree)

NextContainer ==
    \/ \E path \in LayoutPaths(pages[1]), args \in ArgForms(nextTag + 1) :
            ContainerAdd(path, args)
    \/ \E path \in Paths(pages[1]), ray \in SUBSET Paths(pages[1]) :
            Intersect(path, ray)
    \/ \E path \in LayoutPaths(pages[1]) : ForceExit(path)

SpecContainer == InitContainer /\ [][NextContainer]_vars

(***************************************************************************)
(* Properties of the containers.                                           *)
(***************************************************************************)
\* C9: a container's add takes one node, several nodes or one array of
\* nodes; every node is appended to the children in call order after the
\* children there were, and an item that is no Node makes the call throw.
C9_ContainerAdd ==
    [][lastOp'.op = "layout.add"
       => LET path == lastOp'.arg.path
              nodes == Given(lastOp'.arg.items)
              before == NodeAt(pages[1], path).elements
              after == NodeAt(pages'[1], path).elements
          IN  IF \A i \in 1..Len(nodes) : IsElement(nodes[i])
              THEN ~lastOp'.threw /\ after = before \o nodes
              ELSE lastOp'.threw]_vars

\* C10: when _intersect is called on a container with a ray that misses the
\* container's background it returns false and no descendant of the
\* container, at any depth, is hovered afterwards; after forceExit() on a
\* container no descendant is hovered either.
C10_RayExitClearsState ==
    /\ (/\ lastOp.op = "_intersect"
        /\ IsLayout(NodeAt(pages[1], lastOp.arg.path))
        /\ ~lastOp.arg.hit)
       => /\ lastOp.ret = "false"
          /\ HoveredBelow(NodeAt(pages[1], lastOp.arg.path)) = {}
    /\ (lastOp.op = "forceExit")
       => HoveredBelow(NodeAt(pages[1], lastOp.arg.path)) = {}

\* C10's case: the ray has missed the background of the root container
\* while a descendant two levels below it was hovered, and has cleared it.
C10_Witness ==
    /\ lastOp.op = "_intersect"
    /\ lastOp.arg.path = <<>>
    /\ ~lastOp.arg.hit
    /\ \E p \in lastOp.arg.before : Len(p) >= 2
    /\ HoveredBelow(pages[1]) = {}

\* The calls a record of _intersect calls holds that were made on the direct
\* children of the node at path.
ChildTests(tested, path) ==
    SelectSeq(tested, LAMBDA t : Len(t.path) = Len(path) + 1)

\* C11: a container's _intersect returns true exactly when the ray hits the
\* container's own background; on a hit the children are tested in insertion
\* order and none is tested after the first child that reports a hit; on a
\* miss no child is tested.
C11_IntersectOrder ==
    (lastOp.op = "_intersect" /\ IsLayout(NodeAt(pages[1], lastOp.arg.path)))
    => LET path == lastOp.arg.path
           n == NodeAt(pages[1], path)
           T == ChildTests(lastOp.arg.tested, path)
       IN  /\ (lastOp.ret = "true") <=> lastOp.arg.hit
           /\ ~lastOp.arg.hit => Len(lastOp.arg.tested) = 1
           /\ lastOp.arg.hit
              => /\ \A j \in 1..Len(T) : T[j].path = Append(path, j)
                 /\ \A j \in 1..(Len(T) - 1) : ~T[j].ret
                 /\ \/ Len(T) = Len(n.elements)
                    \/ (Len(T) >= 1 /\ T[Len(T)].ret)

\* C11's case: the ray has hit the background of a container of several
\* children and its first child, and the call has returned true without a
\* test of the children that follow.
C11_Witness ==
    /\ lastOp.op = "_intersect"
    /\ lastOp.arg.hit
    /\ lastOp.ret = "true"
    /\ Len(NodeAt(pages[1], lastOp.arg.path).elements) >= 2
    /\ LET T == ChildTests(lastOp.arg.tested, lastOp.arg.path)
       IN  Len(T) = 1 /\ T[1].ret

(***************************************************************************)
(* The rest of an element's style, its computed dimensions and the         *)
(* position of its group.                                                  *)
(***************************************************************************)
Box(top, bottom, left, right) ==
    [top |-> top, bottom |-> bottom, left |-> left, right |-> right]

NoBox == Box(0, 0, 0, 0)

\* this._dimensions of an element that was never refreshed.
NoDimensions ==
    [width |-> 0, height |-> 0, halfW |-> 0, margin |-> NoBox,
     padding |-> NoBox]

\* The element n with style.width, style.align, style.position, style.margin
\* and style.padding, as constructed: not refreshed, its group at the origin.
Styled(n, width, align, position, margin, padding) ==
    [kind |-> n.kind, id |-> n.id, height |-> n.height, hover |-> n.hover,
     visible |-> n.visible, tag |-> n.tag, elements |-> n.elements,
     width |-> width, align |-> align, position |-> position,
     margin |-> margin, padding |-> padding,
     _dimensions |-> NoDimensions, x |-> n.x, y |-> n.y,
     _parentDimensions |-> n._parentDimensions]

(***************************************************************************)
(* isFull() on a vertical container whose children's heights are doubles   *)
(* of SignificandBits bits: 1.0 is FloatOne quanta.                        *)
(***************************************************************************)
FloatOne == Pow2(SignificandBits + 1)

\* Heights a significand of SignificandBits bits holds.
FloatHeights == {h \in {1, 2, FloatOne - 4, FloatOne} :
                    RoundToNearestEven(h, SignificandBits) = h}

\* The children handed to the container: views with and without margins,
\* and a padded container that holds a child of its own.
FullChildren ==
    {Styled(View(NoId, h), FloatOne, "top", "left", Box(m, m, 0, 0), NoBox) :
        h \in FloatHeights, m \in {0, 1}}
    \cup {Styled(VerticalLayout(NoId, h, <<View(NoId, FloatOne)>>), FloatOne,
                 "top", "left", NoBox, Box(1, 1, 1, 1)) : h \in FloatHeights}

AddChild(child) ==
    LET r == AbstractLayout_add(pages[1], <<child>>)
    IN  /\ Len(pages[1].elements) < MaxChildren
        /\ pages' = [pages EXCEPT ![1] = r.layout]
        /\ lastOp' = Call("layout.add",
                          [kind |-> "arguments", path |-> <<>>,
                           items |-> <<child>>],
                          NoLayoutID, [threw |-> r.threw, warned |-> FALSE])
        /\ UNCHANGED <<_pageId, currPage, cfgVars, inputVars, addVars>>

IsFull ==
    /\ lastOp' = [Call("isFull", NullVal, NoLayoutID, Done)
                    EXCEPT !.ret = IF isFullIn(pages[1], FloatOne,
                                               SignificandBits)
                                   THEN "true" ELSE "false"]
    /\ UNCHANGED <<ctlVars, cfgVars, inputVars, addVars>>

InitFull ==
    constructor(SomeData, NullVal, AUTOMATIC_ADDING,
                VerticalLayout("p", FloatOne, <<>>))

NextFull ==
    \/ \E child \in FullChildren : AddChild(child)
    \/ IsFull

SpecFull == InitFull /\ [][NextFull]_vars

\* The orderings of the elements of a sequence.
Orderings(q) ==
    {[i \in 1..Len(q) |-> q[f[i]]] :
        f \in {g \in [1..Len(q) -> 1..Len(q)] :
                  \A i, j \in 1..Len(q) : g[i] = g[j] => i = j}}

\* C12: isFull() on a vertical container returns true exactly when the sum
\* of the style heights of its direct children is at least 1.0, false for a
\* container with no children; it returns the same for every ordering of the
\* children, whatever their margins, padding, dimensions and own children.
C12_IsFull ==
    lastOp.op = "isFull"
    => LET elts == pages[1].elements
           heights == [i \in 1..Len(elts) |-> elts[i].height]
       IN  /\ (lastOp.ret = "true") <=> (SumSeq(heights) >= FloatOne)
           /\ elts = <<>> => lastOp.ret = "false"
           /\ \A q \in Orderings(elts) :
                 isFullIn([pages[1] EXCEPT !.elements = q], FloatOne,
                          SignificandBits) = (lastOp.ret = "true")

(***************************************************************************)
(* Element.refresh and VerticalLayout.refresh.  A fraction of the style is *)
(* counted in units of 1/HeightUnit, a length in world units.              *)
(***************************************************************************)
\* Element.refresh: the dimensions, the margin and the padding of the style
\* are fractions of the space available.
Element_refresh(n, maxEltWidth, maxEltHeight) ==
    LET w == (n.width * maxEltWidth) \div HeightUnit
        OfW(f) == (f * maxEltWidth) \div HeightUnit
        OfH(f) == (f * maxEltHeight) \div HeightUnit
        Resolved(b) == Box(OfH(b.top), OfH(b.bottom), OfW(b.left), OfW(b.right))
    IN  [n EXCEPT !._dimensions =
            [width |-> w, height |-> OfH(n.height), halfW |-> w \div 2,
             margin |-> Resolved(n.margin), padding |-> Resolved(n.padding)]]

RECURSIVE refresh(_, _, _)
RECURSIVE refreshElements(_, _, _, _, _)

\* refresh with running offsets that start at zero, not at the padding.
refresh_UnseededOffset(n, maxEltWidth, maxEltHeight) ==
    LET n0 == Element_refresh(n, maxEltWidth, maxEltHeight)
        dimensions == n0._dimensions
        padding == dimensions.padding
        offset == [top |-> 0, bottom |-> 0]
    IN  IF ~IsLayout(n) THEN n0
        ELSE refreshElements(n0, 1, offset,
                             dimensions.width - (padding.right + padding.left),
                             dimensions.height - (padding.top + padding.bottom))

RECURSIVE refreshElements_Relative(_, _, _, _, _)

\* The loop over this._elements that moves each child from where it is.
refreshElements_Relative(n, i, offset, maxWidthPerElt, maxHeightPerElt) ==
    IF i > Len(n.elements) THEN n
    ELSE LET elt == refresh(n.elements[i], maxWidthPerElt, maxHeightPerElt)
             top == offset.top + elt._dimensions.margin.top
             placed == [elt EXCEPT !.y = elt.y - top]
             offset1 == [offset EXCEPT !.top = top + elt._dimensions.height
                                              + elt._dimensions.margin.bottom]
         IN  refreshElements_Relative([n EXCEPT !.elements[i] = placed], i + 1,
                                      offset1, maxWidthPerElt, maxHeightPerElt)

\* The loop over this._elements, from child i on.
refreshElements(n, i, offset, maxWidthPerElt, maxHeightPerElt) ==
    IF i > Len(n.elements) THEN n
    ELSE LET elt == refresh(n.elements[i], maxWidthPerElt, maxHeightPerElt)
             eltDim == elt._dimensions
             top == offset.top + eltDim.margin.top
             bottom == offset.bottom + eltDim.margin.bottom
             y == CASE elt.align = "top" -> 0 - top
                    [] elt.align = "bottom" ->
                         bottom - n._dimensions.height + eltDim.height
                    [] OTHER -> elt.y
             x == CASE elt.position = "right" -> maxWidthPerElt - eltDim.width
                    [] elt.position = "center" ->
                         (maxWidthPerElt \div 2) - eltDim.halfW
                    [] OTHER -> elt.x
             offset1 ==
                 CASE elt.align = "top" ->
                        [offset EXCEPT !.top = top + eltDim.height
                                                 + eltDim.margin.bottom]
                   [] elt.align = "bottom" ->
                        [offset EXCEPT !.bottom = bottom + eltDim.height
                                                    + eltDim.margin.top]
                   [] OTHER -> offset
         IN  refreshElements([n EXCEPT !.elements[i] =
                                    [elt EXCEPT !.x = x, !.y = y]],
                             i + 1, offset1, maxWidthPerElt, maxHeightPerElt)

\* VerticalLayout.refresh on a layout, Element.refresh on a view.
refresh(n, maxEltWidth, maxEltHeight) ==
    LET n0 == Element_refresh(n, maxEltWidth, maxEltHeight)
        dimensions == n0._dimensions
        padding == dimensions.padding
        offset == [top |-> padding.top, bottom |-> padding.bottom]
        horizontalPad == padding.right + padding.left
        verticalPad == padding.top + padding.bottom
    IN  IF ~IsLayout(n) THEN n0
        ELSE refreshElements(n0, 1, offset, dimensions.width - horizontalPad,
                             dimensions.height - verticalPad)

(***************************************************************************)
(* The calls the application makes on a vertical container and its         *)
(* children: add and refresh.                                              *)
(***************************************************************************)
\* The children handed to the container: views of every alignment and
\* position, with and without margins, and a padded container with a child.
LayoutChildren ==
    LET V(h, align, position, m) ==
            Styled(View(NoId, h), 1, align, position, Box(m, m, 0, 0), NoBox)
    IN  {V(1, "top", "left", 0), V(1, "top", "right", 1),
         V(HeightUnit, "top", "center", 0), V(1, "bottom", "left", 1),
         V(1, "center", "left", 0),
         Styled(VerticalLayout(NoId, 1, <<V(1, "top", "left", 1)>>),
                HeightUnit, "top", "left", NoBox, Box(1, 0, 0, 0))}

LayoutRoots ==
    {Styled(VerticalLayout("p", HeightUnit, <<>>), HeightUnit, "top", "left",
            NoBox, padding) : padding \in {NoBox, Box(1, 0, 1, 0)}}

\* The space available to the root, in world units.
Spaces == {2 * HeightUnit * HeightUnit, 4 * HeightUnit * HeightUnit}

Refresh(maxEltWidth, maxEltHeight) ==
    /\ pages' = [pages EXCEPT ![1] = refresh(@, maxEltWidth, maxEltHeight)]
    /\ lastOp' = Call("refresh",
                      [kind |-> "space", width |-> maxEltWidth,
                       height |-> maxEltHeight],
                      NoLayoutID, Done)
    /\ UNCHANGED <<_pageId, currPage, cfgVars, inputVars, addVars>>

InitLayout ==
    \E root \in LayoutRoots :
        constructor(SomeData, NullVal, AUTOMATIC_ADDING, root)

NextLayout ==
    \/ \E child \in LayoutChildren : AddChild(child)
    \/ \E w \in Spaces, h \in Spaces : Refresh(w, h)

SpecLayout == InitLayout /\ [][NextLayout]_vars

\* C13: refresh is idempotent: a second refresh(w, h) of an unchanged tree
\* leaves the computed dimensions and the x/y position of the container and
\* of every descendant as the first call left them.
C13_RefreshIdempotent ==
    lastOp.op = "refresh"
    => refresh(pages[1], lastOp.arg.width, lastOp.arg.height) = pages[1]

\* C13's case: the refreshed container holds a child stacked from the
\* bottom, a child below the top edge, and a container whose own child has
\* been placed.
C13_Witness ==
    /\ lastOp.op = "refresh"
    /\ \E i, j, k \in 1..Len(pages[1].elements) :
          LET e == pages[1].elements
          IN  /\ e[i].align = "bottom" /\ e[i].y # 0
              /\ e[j].align = "top" /\ e[j].y < 0
              /\ IsLayout(e[k]) /\ e[k].elements[1].y < 0

\* The containers of the refreshed tree whose children are all align: top.
TopContainers ==
    {p \in LayoutPaths(pages[1]) :
        \A i \in 1..Len(NodeAt(pages[1], p).elements) :
            NodeAt(pages[1], p).elements[i].align = "top"}

\* seed, plus the top margins, heights and bottom margins of the children
\* before child i, plus child i's own top margin.
TopOffset(c, i, seed) ==
    LET d(j) == c.elements[j]._dimensions
    IN  seed + SumSeq([j \in 1..(i - 1) |->
                          d(j).margin.top + d(j).height + d(j).margin.bottom])
             + d(i).margin.top

\* The vertical extents of no two children of c overlap.
NoOverlap(c) ==
    \A i, j \in 1..Len(c.elements) :
        i < j => (0 - c.elements[i].y) + c.elements[i]._dimensions.height
                    <= 0 - c.elements[j].y

DataValues == {NullVal, Number(0), Number(0 - 2), Number(2)}

\* The dimensions handed to addPage: none, or an object that holds a width
\* and a height, either of which may be missing or zero.
PageDimensions ==
    {NullVal}
    \cup {[kind |-> "dimensions", width |-> w, height |-> h] :
            w \in {NullVal, Number(4)}, h \in {Number(0), Number(4)}}

\* An empty template, a template with a child of its own, and a template
\* that is full as it is.
ControllerTemplates ==
    {VerticalLayout("t", 1, <<>>), VerticalLayout("t", 1, <<View(NoId, 1)>>),
     VerticalLayout("t", 1, <<View(NoId, HeightUnit)>>)}

\* new VRUI( ... ) has returned a controller.
Constructed == ~(lastOp.op = "constructor" /\ lastOp.threw)

InitController ==
    \E w \in DataValues, h \in DataValues, tmpl \in ControllerTemplates,
       type \in {AUTOMATIC_ADDING, OTHER_MODE},
       root \in PageInputs \cup {NullVal} :
        constructor(Data(w, h), tmpl, type, root)

NextController ==
    \/ \E element \in {View(NoId, h) : h \in Heights} :
            Constructed /\ Add(element, NoLayoutID)
    \/ \E page \in PageInputs, dimensions \in PageDimensions :
            Constructed /\ AddPage(page, dimensions)
    \/ Constructed /\ NextPage

SpecController == InitController /\ [][NextController]_vars

FirstAddMadeOnePage ==
    /\ ~lastOp'.threw
    /\ Len(pages') = 1 /\ _pageId' = 0 /\ currPage' = 1
    /\ pages'[1].visible
    /\ pages'[1].kind = template.kind /\ pages'[1].id = template.id
    /\ pages'[1].height = template.height
    /\ pages'[1].elements = clone(template).elements \o <<lastOp'.arg>>

\* A call add(e) of a valid element on a controller with zero pages, under
\* AUTOMATIC_ADDING with a template.
FirstAdd ==
    /\ lastOp'.op = "add"
    /\ IsElement(lastOp'.arg)
    /\ lastOp'.layoutID = NoLayoutID
    /\ Len(pages) = 0
    /\ modeType = AUTOMATIC_ADDING
    /\ IsLayout(template)

\* C16 (as stated): under AUTOMATIC_ADDING with a template and zero pages,
\* add(e) creates exactly one page, a clone of the template that is current
\* and visible, and attaches e to it after the template's own children; it
\* creates no other page.
C16_FirstAdd ==
    [][FirstAdd => FirstAddMadeOnePage]_vars

\* C16 (amended): the same, for a template that is not full as it is.
C16_FirstAddWithRoom ==
    [][(FirstAdd /\ ~isFull(template)) => FirstAddMadeOnePage]_vars

\* C16's case: the first add on a controller constructed without a root has
\* made page 0 from a template with a child of its own and has attached the
\* element after that child.
C16_Witness ==
    /\ lastOp.op = "add"
    /\ nextTag = 1
    /\ Len(pages) = 1
    /\ pages[1].id = "t"
    /\ Len(pages[1].elements) = 2
    /\ pages[1].elements[1].tag = 0
    /\ pages[1].elements[2].tag = 1

\* C17 (as stated): addPage with a page that is no Container (a leaf
\* widget, or a value that is no Node) throws and leaves the page sequence,
\* the current page and every page's visibility as they were.
C17_AddPageValidates ==
    [][(lastOp'.op = "addPage" /\ ~IsLayout(lastOp'.arg.page))
       => (lastOp'.threw /\ UNCHANGED ctlVars)]_vars

\* C17 (amended): addPage with a page that is no Node throws and leaves the
\* page sequence, the current page and every page's visibility as they were.
C17_AddPageValidatesNode ==
    [][(lastOp'.op = "addPage" /\ ~IsElement(lastOp'.arg.page))
       => (lastOp'.threw /\ UNCHANGED ctlVars)]_vars

\* C17's case: addPage has thrown for a value that is no Node on a
\* controller that has pages, the second of them current.
C17_Witness ==
    /\ lastOp.op = "addPage"
    /\ lastOp.threw
    /\ ~IsElement(lastOp.arg.page)
    /\ Len(pages) >= 2
    /\ _pageId = 1

\* What a call of addPage that returned is documented to do: the page is
\* the last of the sequence, with the dimensions handed over, each missing
\* one replaced by the controller's.
PageAdded ==
    LET given == lastOp'.arg.dimensions
        Missing(v) == v.kind = "null"
        width == IF given.kind = "null" \/ Missing(given.width)
                 THEN data.width ELSE given.width
        height == IF given.kind = "null" \/ Missing(given.height)
                  THEN data.height ELSE given.height
        page == pages'[Len(pages')]
    IN  /\ Len(pages') = Len(pages) + 1
        /\ SubSeq(pages', 1, Len(pages)) = pages
        /\ page._parentDimensions = [width |-> width, height |-> height]
        /\ 2 * page.x = 0 - width.value
        /\ 2 * page.y = height.value
        /\ Len(pages) = 0
           => (_pageId' = 0 /\ currPage' = 1 /\ page.visible)
        /\ Len(pages) > 0
           => (_pageId' = _pageId /\ currPage' = currPage /\ ~page.visible)

\* C18: addPage appends the page at the end of the page sequence, records as
\* its dimensions the width and height handed over, each missing one replaced
\* by the controller's own, and sets the page's offset to x = -width/2,
\* y = +height/2; the first page added becomes current and visible, a later
\* one leaves the current page and its index as they were and is hidden.
C18_AddPagePlacement ==
    [][(lastOp'.op = "addPage" /\ ~lastOp'.threw) => PageAdded]_vars

\* C19: when the mode type is not AUTOMATIC_ADDING, add(element, layoutID?)
\* with a valid element warns, does not throw and changes nothing: no page
\* is created and no container's children change.
C19_UnrecognizedMode ==
    [][(/\ lastOp'.op = "add"
        /\ IsElement(lastOp'.arg)
        /\ modeType # AUTOMATIC_ADDING)
       => (lastOp'.warned /\ ~lastOp'.threw /\ UNCHANGED ctlVars)]_vars

\* C19's case: add with a layoutID has warned on a controller of another
\* mode type that has a template and a page.
C19_Witness ==
    /\ lastOp.op = "add"
    /\ lastOp.warned
    /\ ~lastOp.threw
    /\ lastOp.layoutID # NoLayoutID
    /\ modeType = OTHER_MODE
    /\ IsLayout(template)
    /\ Len(pages) >= 1


\* ---------------------------------------------------------------------------
\* update() over several pages: the controller is built, pages are added and
\* turned, the input sources are switched and frames are run.

InitUpdate ==
    \E root \in {NullVal, VerticalLayout("p", 1, <<View(NoId, 1)>>)} :
        constructor(SomeData, NullVal, AUTOMATIC_ADDING, root)

NextUpdate ==
    \/ \E page \in PageInputs : AddPage(page, NullVal)
    \/ NextPage
    \/ \E camera \in Cameras, renderer \in Renderers :
            enableMouse(camera, renderer)
    \/ disableMouse
    \/ \E object \in {Object3D(FALSE, FALSE), Object3D(TRUE, FALSE)} :
            addInput(object)
    \/ \E b \in BOOLEAN : SetEnabled(b)
    \/ \E ray \in Rays : update(ray)

SpecUpdate == InitUpdate /\ [][NextUpdate]_vars

C21_PressedState ==
    [][/\ (lastOp'.op = "update" /\ enabled /\ ~_mouse.enabled
            /\ inputObject.kind = "Object3D" /\ currPage # NoPage)
           => /\ ~lastOp'.threw
              /\ lastOp'.arg.page = currPage
              /\ _state'.pressed = (inputObject.pressed \/ _forcePressed)
       /\ (lastOp'.op = "setPressed" /\ ~_mouse.enabled)
           => (_forcePressed' = lastOp'.arg.value /\ ~lastOp'.warned)
       /\ (lastOp'.op = "setPressed" /\ _mouse.enabled)
           => (lastOp'.warned /\ UNCHANGED _forcePressed)
       /\ lastOp'.op # "setPressed" => UNCHANGED _forcePressed]_vars


\* The normalised device coordinates of a move event on a canvas that is
\* CanvasSize wide and high, in units of 1 / CanvasSize.
DeviceCoords(ev) == <<2 * ev.offsetX - CanvasSize, CanvasSize - 2 * ev.offsetY>>

\* What the pointer events and the pointer frame do, step by step: a move
\* event overwrites the coordinates (on every renderer, or only when the
\* controller holds one), a left-button down sets pressed, another button
\* leaves it, an up clears it, no event touches anything else, and a frame in
\* pointer mode reads the two as they are and writes neither.
PointerHandoff(anyRenderer) ==
    /\ (lastOp'.op = "mousemove" /\ _mouse.enabled
        /\ (anyRenderer \/ _mouse.renderer.kind # "null"))
       => (~lastOp'.threw /\ _mouse'.coords = DeviceCoords(lastOp'.arg))
    /\ (lastOp'.op = "mousedown" /\ _mouse.enabled)
       => _state'.pressed = (lastOp'.arg.button = 0 \/ _state.pressed)
    /\ (lastOp'.op = "mouseup" /\ _mouse.enabled) => ~_state'.pressed
    /\ lastOp'.op \in EventTypes
       => /\ UNCHANGED <<ctlVars, cfgVars, addVars, enabled, inputObject,
                         _forcePressed, _update, listeners, nextGen,
                         lastSwitch>>
          /\ _mouse' = [_mouse EXCEPT !.coords = _mouse'.coords]
          /\ lastOp'.op = "mousemove" => UNCHANGED _state
          /\ lastOp'.op # "mousemove" => UNCHANGED _mouse
    /\ (lastOp'.op = "update" /\ enabled /\ _mouse.enabled)
       => /\ lastOp'.routine = "_updateMouse"
          /\ lastOp'.arg.coords = _mouse.coords
          /\ lastOp'.arg.pressed = _state.pressed
          /\ UNCHANGED <<_mouse, _state>>

\* C22: pointer events coalesce.  Between two frames in pointer mode each move
\* event overwrites the coordinates and each left-button down or button up
\* overwrites pressed, so the later frame uses the coordinates of the most
\* recent move and a pressed value that is true exactly when the most recent
\* of (left-button down, up) was a down; the handlers write only coords and
\* pressed and change no page, child or hover state.
C22_PointerCoalesce == [][PointerHandoff(TRUE)]_vars

\* C22 for a controller whose enableMouse was given a renderer.
C22_PointerCoalesceWithRenderer == [][PointerHandoff(FALSE)]_vars

\* A frame in pointer mode that used coordinates written by a move event and
\* a pressed state written by a left-button down.
C22_Witness ==
    /\ lastOp.op = "update"
    /\ lastOp.routine = "_updateMouse"
    /\ ~lastOp.threw
    /\ lastOp.arg.pressed
    /\ lastOp.arg.coords = <<CanvasSize, 0 - CanvasSize>>
    /\ _mouse.renderer.kind # "null"


\* The element of the step is the new last child of the node at path ref of
\* page k, and no other page has changed.
Landed(k, ref) ==
    LET before == NodeAt(pages[k], ref).elements
        after == NodeAt(pages'[k], ref).elements
    IN  /\ Len(after) = Len(before) + 1
        /\ after[Len(after)].tag = lastOp'.arg.tag
        /\ \A i \in 1..Len(pages) : i # k => pages'[i] = pages[i]

\* What add( element, layoutID ) has done when the target is looked up in
\* page k: a miss, or a match that is no container, throws; a match with
\* room receives the element; a full match makes a page of the template in
\* which the lookup is repeated.
TargetIn(k) ==
    LET ref == _visit(pages[k], lastOp'.layoutID)
        fresh == _visit(clone(template), lastOp'.layoutID)
    IN  IF ref = NullRef \/ ~IsLayout(NodeAt(pages[k], ref))
        THEN lastOp'.threw
        ELSE IF ~isFull(NodeAt(pages[k], ref))
        THEN ~lastOp'.threw /\ Len(pages') = Len(pages) /\ Landed(k, ref)
        ELSE /\ Len(pages') = Len(pages) + 1
             /\ \A i \in 1..Len(pages) : pages'[i] = pages[i]
             /\ IF fresh = NullRef THEN lastOp'.warned
                ELSE AttachedTags(<<pages'[Len(pages')]>>) = {lastOp'.arg.tag}

\* A call of add with one element and a layoutID on a controller that has
\* pages and expands from a template.
AddWithLayoutID ==
    /\ lastOp'.op = "add"
    /\ IsElement(lastOp'.arg)
    /\ lastOp'.layoutID # NoLayoutID
    /\ modeType = AUTOMATIC_ADDING
    /\ IsLayout(template)
    /\ Len(pages) >= 1

\* C23: when add is given a layoutID, the insertion target is looked up in
\* the subtree of the current (visible) page, also when that page is not the
\* last one.
C23_LookupInCurrentPage == [][AddWithLayoutID => TargetIn(currPage)]_vars

\* C23 for the page the code searches: the insertion target is looked up in
\* the subtree of the last page of the sequence, current or not.
C23_LookupInLastPage == [][AddWithLayoutID => TargetIn(Len(pages))]_vars

\* An add with a layoutID that found its target, with room, in a last page
\* that is hidden, while the current page holds a container of that id too.
C23_Witness ==
    /\ lastOp.op = "add"
    /\ lastOp.layoutID # NoLayoutID
    /\ IsElement(lastOp.arg)
    /\ ~lastOp.threw /\ ~lastOp.warned
    /\ Len(pages) >= 2
    /\ currPage # Len(pages)
    /\ ~pages[Len(pages)].visible
    /\ lastOp.arg.tag \in AttachedTags(<<pages[Len(pages)]>>)
    /\ _visit(pages[currPage], lastOp.layoutID) # NullRef


\* ---------------------------------------------------------------------------
\* The layoutID lookup on page trees: pages that hold the same id at several
\* depths, on a leaf, and on the root, grown further by add.

VisitIDs == {"a", "x"}

VisitRoots ==
    {VerticalLayout("p", 1, <<VerticalLayout("x", 1, <<VerticalLayout("a", 1, <<>>)>>),
                              VerticalLayout("a", 1, <<>>)>>),
     VerticalLayout("a", 1, <<VerticalLayout("x", 1, <<>>)>>),
     VerticalLayout("p", 1, <<View("a", 1), VerticalLayout("a", 1, <<>>)>>),
     VerticalLayout("p", 1, <<>>)}

VisitInputs ==
    {View("a", 1), VerticalLayout("a", 1, <<>>), VerticalLayout("x", 1, <<>>)}

\* this._visit( page, findLayout ) on page k.
Visit(k, layoutID) ==
    /\ k \in 1..Len(pages)
    /\ lastOp' = Call("_visit",
                      [kind |-> "lookup", page |-> k,
                       ref |-> _visit(pages[k], layoutID)],
                      layoutID, Done)
    /\ UNCHANGED <<ctlVars, cfgVars, inputVars, addVars>>

InitVisit ==
    \E root \in VisitRoots :
        constructor(SomeData, VerticalLayout("t", 1, <<>>), AUTOMATIC_ADDING,
                    root)

NextVisit ==
    \/ \E element \in VisitInputs, layoutID \in VisitIDs \cup {NoLayoutID} :
            Add(element, layoutID)
    \/ \E k \in 1..MaxPages, layoutID \in VisitIDs : Visit(k, layoutID)

SpecVisit == InitVisit /\ [][NextVisit]_vars

\* Breadth-first order of two paths of one tree: the shallower first, and
\* at equal depth the one that is further left.
Precedes(p, q) ==
    \/ Len(p) < Len(q)
    \/ /\ Len(p) = Len(q)
       /\ \E i \in 1..Len(p) :
             p[i] < q[i] /\ \A j \in 1..(i - 1) : p[j] = q[j]

\* The lookup just made returned the first, in breadth-first order, of the
\* given paths, and nothing exactly when there is none.
Nearest(matches) ==
    LET ref == lastOp.arg.ref
    IN  /\ (ref = NullRef) <=> (matches = {})
        /\ ref # NullRef
           => (ref \in matches /\ \A q \in matches \ {ref} : Precedes(ref, q))

\* The descendants of the root of the page just searched.
Descendants == Paths(pages[lastOp.arg.page]) \ {<<>>}

\* C24: the layoutID lookup terminates and returns the matching Container of
\* smallest depth below the page, the leftmost among matches of equal
\* depth, and no target only when no Container below the page has that id.
C24_NearestContainer ==
    lastOp.op = "_visit"
    => Nearest({p \in Descendants :
                   LET n == NodeAt(pages[lastOp.arg.page], p)
                   IN  IsLayout(n) /\ n.id = lastOp.layoutID})

\* C24 for what findLayout matches: the lookup returns the matching element,
\* Container or leaf, that comes first in breadth-first order among the
\* descendants of the page root, and nothing only when no descendant has
\* that id.
C24_NearestElement ==
    lastOp.op = "_visit"
    => Nearest({p \in Descendants :
                   NodeAt(pages[lastOp.arg.page], p).id = lastOp.layoutID})

\* A lookup that returned a child of the root while a deeper element of the
\* same id stands to its left, below an earlier child.
C24_Witness ==
    /\ lastOp.op = "_visit"
    /\ Len(lastOp.arg.ref) = 1
    /\ \E q \in Descendants :
          /\ Len(q) = 2
          /\ q[1] < lastOp.arg.ref[1]
          /\ NodeAt(pages[lastOp.arg.page], q).id = lastOp.layoutID


\* C25: after refresh, for every padding of the container, a child with
\* position right has x offset (container width - child width), a child with
\* position center is centred in the container, and a child with the default
\* left position has the x offset it was constructed with; none of this
\* depends on the child's align or on its siblings.
C25_HorizontalPlacement ==
    lastOp.op = "refresh"
    => \A p \in LayoutPaths(pages[1]) :
          LET c == NodeAt(pages[1], p)
              width == c._dimensions.width
          IN  \A i \in 1..Len(c.elements) :
                  LET e == c.elements[i]
                  IN  /\ e.position = "right"
                         => e.x = width - e._dimensions.width
                      /\ e.position = "center"
                         => e.x = (width \div 2) - (e._dimensions.width \div 2)
                      /\ e.position = "left" => e.x = 0


\* C26: after every _intersect call on a container whose background is hit,
\* at most one direct child of the container is hovered, and it is a child
\* the ray hits: a child that was hovered in an earlier frame and that the
\* ray does not hit now is not hovered, whatever the order of the children.
C26_NoStaleHover ==
    (lastOp.op = "_intersect" /\ lastOp.arg.hit
     /\ IsLayout(NodeAt(pages[1], lastOp.arg.path)))
    => LET path == lastOp.arg.path
           c == NodeAt(pages[1], path)
           hovered == {i \in 1..Len(c.elements) : c.elements[i].hover}
           struck == {i \in 1..Len(c.elements) :
                         \E t \in 1..Len(lastOp.arg.tested) :
                             /\ lastOp.arg.tested[t].path = Append(path, i)
                             /\ lastOp.arg.tested[t].ret}
       IN  Cardinality(hovered) <= 1 /\ hovered \subseteq struck

====
